---- MODULE Spec2Model ----
(***************************************************************************)
(* A model of the application state store of src/src/stores/Store.ts       *)
(* (class Store) and of its worker-proxied variant (class WorkerStore, in   *)
(* the revision of src/unnamed/part_000).                                   *)
(*                                                                         *)
(* Values are tagged records.  A container carries the identity of the JS  *)
(* object it stands for (field id), so that the strict comparison !== of    *)
(* the code is a comparison of identities for containers and of values for  *)
(* primitives.  A JSON pointer is kept as its sequence of segments.         *)
(***************************************************************************)
EXTENDS Integers, Sequences, FiniteSets, TLC

VARIABLES
    _state,        \* Store._state: the current root
    _changePaths,  \* Store._changePaths: insertion-ordered Map, as a sequence of entries
    _callbackId,   \* Store._callbackId
    handles,       \* the handles returned by onChange: the paths each remove() closes over
    heldPath,      \* a Path object the caller built earlier and still holds
    lastCall,      \* history: the store method called last
    trace          \* history: what the last call did, in order: the addresses it found
                   \* changed, the callbacks it ran, the events it emitted

storeVars == <<_state, _changePaths, _callbackId, handles, heldPath, lastCall, trace>>

VARIABLES
    _messageId,    \* WorkerStore._messageId
    _messageQueue, \* WorkerStore._messageQueue: message id -> the call its resolver resumes
    calls,         \* the get and apply calls made on the WorkerStore, and their promises
    outbox,        \* the envelopes handed to worker.postMessage, in order
    microtasks,    \* the promise continuations ready to run, in order
    lastMessage,   \* history: the inbound message handled last, and what the handler did
    events         \* history: the events the WorkerStore emitted, in order

workerVars == <<_messageId, _messageQueue, calls, outbox, microtasks, lastMessage, events>>

VARIABLES
    kept,          \* what a caller kept of its last apply: the root before it, the undo list
    scheduled,     \* the callbacks queued so far, in the order they were queued
    parts,         \* the callbacks run so far, in the order they ran
    running        \* whether synchronous code is running

queueVars == <<scheduled, parts, running>>

VARIABLES
    atCall         \* history: the last store.at call: its arguments and the Path returned

vars == <<storeVars, workerVars, kept, queueVars, atCall>>

\* What a method of the Store, and what a method of the WorkerStore, leaves alone.
outsideStore == <<workerVars, kept, queueVars, atCall>>
outsideWorker == <<storeVars, kept, queueVars, atCall>>

-----------------------------------------------------------------------------
(* Bounds *)

MaxSubs == 2        \* onChange calls per behaviour
MaxSubsHeld == 1    \* onChange calls per behaviour of SpecHeld
MaxSubsFrame == 1   \* onChange calls per behaviour of SpecFrame
MaxPathsArg == 2    \* length of the paths array passed to onChange
MaxCalls == 3       \* get and apply calls per behaviour of a WorkerStore
MaxCallsFair == 2   \* get and apply calls per behaviour of WorkerSpecFair
MaxOps == 2         \* operations per batch of SpecUndo
MaxQueued == 4      \* callbacks queued per behaviour of QueueSpec
MaxLen == 2         \* elements of an array passed to at
MaxSubsReentrant == 2   \* onChange calls per behaviour of SpecReentrant

Segments == {"a", "b"}
Addresses == {<<"a">>, <<"a", "b">>}
Scalars == {1, 2}
CallbackFns == {"f"}
Results == {"r1", "r2"}     \* the results a response can carry

-----------------------------------------------------------------------------
(* Values *)

Undefined == [t |-> "undef"]
Num(n) == [t |-> "num", n |-> n]
Obj(id, f) == [t |-> "obj", id |-> id, f |-> f]
NoFields == [k \in {} |-> Undefined]

\* The strict equality === of JavaScript: identity for objects, value for primitives.
StrictEqual(x, y) ==
    /\ x.t = y.t
    /\ CASE x.t = "undef" -> TRUE
         [] x.t = "num" -> x.n = y.n
         [] x.t = "obj" -> x.id = y.id

\* The identities of the objects reachable from a value.
RECURSIVE IdsOf(_)
IdsOf(v) ==
    IF v.t = "obj"
    THEN {v.id} \cup UNION {IdsOf(v.f[k]) : k \in DOMAIN v.f}
    ELSE {}

\* The root container.  No address of the model resolves to the root itself, so one
\* identity stands for every root object.
RootId == 0

\* Object allocation: an identity no live object has.
NewId(used) == CHOOSE i \in 0..Cardinality(used) : i \notin used /\ \A j \in 0..(i - 1) : j \in used

-----------------------------------------------------------------------------
(* Pointer and Patch (state/Pointer.ts and state/Patch.ts): the address      *)
(* resolution and the patch engine the store delegates to.                   *)

\* Pointer.get: walks the value by segment; an absent segment resolves to Undefined.
RECURSIVE PointerGet(_, _)
PointerGet(segs, v) ==
    IF segs = <<>> THEN v
    ELSE IF v.t = "obj" /\ Head(segs) \in DOMAIN v.f
         THEN PointerGet(Tail(segs), v.f[Head(segs)])
         ELSE Undefined

\* Whether the slot an address names is present.
RECURSIVE SlotExists(_, _)
SlotExists(segs, v) ==
    IF segs = <<>> THEN TRUE
    ELSE /\ v.t = "obj"
         /\ Head(segs) \in DOMAIN v.f
         /\ SlotExists(Tail(segs), v.f[Head(segs)])

\* Whether the parent of the slot is a container, or can be created (create).
RECURSIVE Writable(_, _, _)
Writable(segs, v, create) ==
    /\ v.t = "obj"
    /\ \/ Len(segs) = 1
       \/ IF Head(segs) \in DOMAIN v.f
          THEN Writable(Tail(segs), v.f[Head(segs)], create)
          ELSE create

\* The identities under the fields of a container other than field k.
SiblingIds(node, k) == UNION {IdsOf(node.f[kk]) : kk \in DOMAIN node.f \ {k}}

\* Copy-on-write: every container from the root to the slot is a fresh object.
RECURSIVE WriteAt(_, _, _, _)
WriteAt(node, segs, leaf, used) ==
    LET k == Head(segs)
        inUse == used \cup SiblingIds(node, k) \cup IdsOf(leaf)
        id == IF node.id = RootId THEN RootId ELSE NewId(inUse)
        sub == IF Len(segs) = 1 THEN [object |-> leaf, used |-> inUse \cup {id}]
               ELSE WriteAt(IF k \in DOMAIN node.f THEN node.f[k] ELSE Obj(NewId(inUse), NoFields),
                            Tail(segs), leaf, inUse \cup {id})
    IN [object |-> Obj(id, [kk \in DOMAIN node.f \cup {k} |->
                              IF kk = k THEN sub.object ELSE node.f[kk]]),
        used |-> sub.used]

RECURSIVE DeleteAt(_, _, _)
DeleteAt(node, segs, used) ==
    LET k == Head(segs)
        inUse == used \cup SiblingIds(node, k)
        id == IF node.id = RootId THEN RootId ELSE NewId(inUse)
    IN IF Len(segs) = 1
       THEN [object |-> Obj(id, [kk \in DOMAIN node.f \ {k} |-> node.f[kk]]),
             used |-> inUse \cup {id}]
       ELSE LET sub == DeleteAt(node.f[k], Tail(segs), inUse \cup {id})
            IN [object |-> Obj(id, [kk \in DOMAIN node.f |->
                                      IF kk = k THEN sub.object ELSE node.f[kk]]),
                used |-> sub.used]

AddOp(path, value) == [op |-> "add", path |-> path, value |-> value]
ReplaceOp(path, value) == [op |-> "replace", path |-> path, value |-> value]
RemoveOp(path) == [op |-> "remove", path |-> path, value |-> Undefined]

\* One operation: the new root, the inverse it contributes, the identities now in use.
PatchOne(operation, object, used) ==
    LET path == operation.path
        previous == PointerGet(path, object)
        noop == [object |-> object, undo |-> <<>>, used |-> used]
    IN CASE operation.op = "add" ->
              IF Writable(path, object, TRUE)
              THEN LET w == WriteAt(object, path, operation.value, used)
                   IN [object |-> w.object,
                       undo |-> IF SlotExists(path, object)
                                THEN <<ReplaceOp(path, previous)>>
                                ELSE <<RemoveOp(path)>>,
                       used |-> w.used]
              ELSE noop
         [] operation.op = "replace" ->
              IF SlotExists(path, object)
              THEN LET w == WriteAt(object, path, operation.value, used)
                   IN [object |-> w.object, undo |-> <<ReplaceOp(path, previous)>>,
                       used |-> w.used]
              ELSE noop
         [] operation.op = "remove" ->
              IF SlotExists(path, object)
              THEN LET w == DeleteAt(object, path, used)
                   IN [object |-> w.object, undo |-> <<AddOp(path, previous)>>,
                       used |-> w.used]
              ELSE noop

\* Patch.apply: the operations in order, each inverse prepended to the undo list.
RECURSIVE PatchApply(_, _, _)
PatchApply(operations, object, used) ==
    IF operations = <<>>
    THEN [object |-> object, undoOperations |-> <<>>, used |-> used]
    ELSE LET one == PatchOne(Head(operations), object, used)
             rest == PatchApply(Tail(operations), one.object, one.used)
         IN [object |-> rest.object,
             undoOperations |-> rest.undoOperations \o one.undo,
             used |-> rest.used]

-----------------------------------------------------------------------------
(* Store *)

NoPath == [none |-> TRUE]

\* A faulty StoreGet: resolves the address against the live root.
StoreGetLive(path) == PointerGet(path.path, _state)

\* Store.get: the value the Path captured.
StoreGet(path) == path.value

\* Store.path: a Path against the current root; base is the first argument's
\* segments (empty for a string first argument), segments what follows.
StorePath(base, segments, state) ==
    LET pointer == base \o segments
    IN [path |-> pointer, state |-> state.id, value |-> PointerGet(pointer, state)]

\* An array: its identity and its elements; element i of the code is e[i + 1].
Arr(id, e) == [t |-> "arr", id |-> id, e |-> e]

\* What && takes for true: every value but undefined and 0 (of the values here).
Truthy(v) == ~(v.t = "undef" \/ (v.t = "num" /\ v.n = 0))

\* array[index]: the element, undefined for an index that names none and for a value
\* that has no such property.
ElementAt(array, index) ==
    IF array.t = "arr" /\ index >= 0 /\ index < Len(array.e)
    THEN array.e[index + 1]
    ELSE Undefined

\* `${path.path}/${index}`: one more segment, the decimal text of the index.
IndexSegment(index) == ToString(index)

\* A faulty StoreAt: takes the index as counted from 1.
StoreAtFromOne(path, index) ==
    LET array == StoreGet(path)
        value == IF Truthy(array)
                 THEN (IF array.t = "arr" /\ index >= 1 /\ index <= Len(array.e)
                       THEN array.e[index] ELSE Undefined)
                 ELSE array
    IN [path |-> Append(path.path, IndexSegment(index)),
        state |-> path.state,
        value |-> value]

\* Store.at: the Path of element index of the array a Path captured.
StoreAt(path, index) ==
    LET array == StoreGet(path)
        value == IF Truthy(array) THEN ElementAt(array, index) ELSE array
    IN [path |-> Append(path.path, IndexSegment(index)),
        state |-> path.state,
        value |-> value]

\* Map.get by key: the index of the entry, 0 when the key is absent.
EntryIndex(changePaths, path) ==
    IF \E i \in 1..Len(changePaths) : changePaths[i].path = path
    THEN CHOOSE i \in 1..Len(changePaths) : changePaths[i].path = path
    ELSE 0

\* A faulty AddOnChange: a new entry takes the live value as its baseline.
AddOnChangeCurrent(changePaths, path, callback, callbackId) ==
    LET i == EntryIndex(changePaths, path.path)
        item == [callbackId |-> callbackId, callback |-> callback]
    IN IF i = 0
       THEN Append(changePaths,
                   [path |-> path.path, callbacks |-> <<item>>,
                    previousValue |-> PointerGet(path.path, _state)])
       ELSE [changePaths EXCEPT ![i].callbacks = Append(@, item)]

\* Store._addOnChange
AddOnChange(changePaths, path, callback, callbackId) ==
    LET i == EntryIndex(changePaths, path.path)
        item == [callbackId |-> callbackId, callback |-> callback]
    IN IF i = 0
       THEN Append(changePaths,
                   [path |-> path.path, callbacks |-> <<item>>, previousValue |-> StoreGet(path)])
       ELSE [changePaths EXCEPT ![i].callbacks = Append(@, item)]

\* paths.forEach((path) => this._addOnChange(path, callback, callbackId))
RECURSIVE AddAll(_, _, _, _)
AddAll(changePaths, paths, callback, callbackId) ==
    IF paths = <<>> THEN changePaths
    ELSE AddAll(AddOnChange(changePaths, Head(paths), callback, callbackId),
                Tail(paths), callback, callbackId)

\* A faulty FilterCallbacks: the comparison of the filter inverted.
FilterCallbacksInverted(callbacks, callbackId) ==
    LET Keep(c) == c.callbackId = callbackId
    IN SelectSeq(callbacks, Keep)

\* The filter of remove(): the callbacks of an entry that stay.
FilterCallbacks(callbacks, callbackId) ==
    LET Keep(c) == c.callbackId # callbackId
    IN SelectSeq(callbacks, Keep)

\* callbacks.splice(index of the id, 1): with the id absent the index is -1 and the
\* last callback goes.
SpliceCallbacks(callbacks, callbackId) ==
    IF \E j \in 1..Len(callbacks) : callbacks[j].callbackId = callbackId
    THEN FilterCallbacks(callbacks, callbackId)
    ELSE SubSeq(callbacks, 1, Len(callbacks) - 1)

\* A faulty HandleRemove: the callback is spliced out instead of filtered out.
RECURSIVE HandleRemoveSplice(_, _, _)
HandleRemoveSplice(changePaths, paths, callbackId) ==
    IF paths = <<>> THEN changePaths
    ELSE LET i == EntryIndex(changePaths, Head(paths))
             spliced == IF i = 0 THEN changePaths
                        ELSE [changePaths EXCEPT
                                ![i].callbacks = SpliceCallbacks(@, callbackId)]
         IN HandleRemoveSplice(spliced, Tail(paths), callbackId)

\* A faulty HandleRemove: every callback on the handle's addresses goes.
RECURSIVE HandleRemoveClear(_, _, _)
HandleRemoveClear(changePaths, paths, callbackId) ==
    IF paths = <<>> THEN changePaths
    ELSE LET i == EntryIndex(changePaths, Head(paths))
             cleared == IF i = 0 THEN changePaths
                        ELSE [changePaths EXCEPT ![i].callbacks = <<>>]
         IN HandleRemoveClear(cleared, Tail(paths), callbackId)

\* The remove() of the handle onChange returns.
RECURSIVE HandleRemove(_, _, _)
HandleRemove(changePaths, paths, callbackId) ==
    IF paths = <<>> THEN changePaths
    ELSE LET i == EntryIndex(changePaths, Head(paths))
             filtered == IF i = 0 THEN changePaths
                         ELSE [changePaths EXCEPT
                                 ![i].callbacks = FilterCallbacks(@, callbackId)]
         IN HandleRemove(filtered, Tail(paths), callbackId)

ChangedEvent(path) == [type |-> "changed", path |-> path]
\* A callback is run: which one, and the root the store holds while it runs (what a
\* store.path() called from inside the callback resolves against).
CallbackEvent(item, state) ==
    [type |-> "callback", callbackId |-> item.callbackId, callback |-> item.callback,
     saw |-> state]
EmitEvent(type) == [type |-> "emit", event |-> type]

\* A faulty NotYetCalled: the ids already called are not looked at.
NotYetCalledAlways(callbackIdsCalled, callbackId) == TRUE

\* if (callbackIdsCalled.indexOf(callbackId) === -1)
NotYetCalled(callbackIdsCalled, callbackId) ==
    \A j \in 1..Len(callbackIdsCalled) : callbackIdsCalled[j] # callbackId

\* callbacks.forEach of _runOnChanges; run is [callbackIdsCalled, trace].
RECURSIVE RunCallbacks(_, _, _)
RunCallbacks(callbacks, run, state) ==
    IF callbacks = <<>> THEN run
    ELSE LET item == Head(callbacks)
         IN RunCallbacks(Tail(callbacks),
                IF NotYetCalled(run.callbackIdsCalled, item.callbackId)
                THEN [callbackIdsCalled |-> Append(run.callbackIdsCalled, item.callbackId),
                      trace |-> Append(run.trace, CallbackEvent(item, state))]
                ELSE run,
                state)

\* Equality by content, whatever the identities.
RECURSIVE DeepEqual(_, _)
DeepEqual(x, y) ==
    /\ x.t = y.t
    /\ CASE x.t = "undef" -> TRUE
         [] x.t = "num" -> x.n = y.n
         [] x.t = "obj" -> /\ DOMAIN x.f = DOMAIN y.f
                           /\ \A k \in DOMAIN x.f : DeepEqual(x.f[k], y.f[k])

\* A faulty HasChanged: a comparison by content.
HasChangedDeep(previousValue, newValue) == ~DeepEqual(previousValue, newValue)

\* if (previousValue !== newValue)
HasChanged(previousValue, newValue) == ~StrictEqual(previousValue, newValue)

\* this._changePaths.forEach of _runOnChanges, from entry i on.
RECURSIVE RunFrom(_, _, _, _)
RunFrom(changePaths, i, run, state) ==
    IF i > Len(changePaths)
    THEN [changePaths |-> changePaths, trace |-> run.trace]
    ELSE LET value == changePaths[i]
             newValue == PointerGet(value.path, state)
         IN IF HasChanged(value.previousValue, newValue)
            THEN RunFrom([changePaths EXCEPT ![i].previousValue = newValue], i + 1,
                         RunCallbacks(value.callbacks,
                                      [run EXCEPT !.trace = Append(@, ChangedEvent(value.path))],
                                      state),
                         state)
            ELSE RunFrom(changePaths, i + 1, run, state)

\* Store._runOnChanges
RunOnChanges(changePaths, state) ==
    RunFrom(changePaths, 1, [callbackIdsCalled |-> <<>>, trace |-> <<>>], state)

\* A callback that calls remove() of handle h when it is run (h = 0: a callback that
\* leaves the store alone).
Remover(h) == [removes |-> h]

RemoveEvent(h) == [type |-> "remove", handle |-> h]

\* callback(), for a callback that may call remove() of a handle it has: the table
\* and the handles afterwards.  remove() assigns a filtered copy to the entry of the
\* table; the array callbacks.forEach is walking is left as it is.
CallCallback(item, run, state) ==
    LET h == item.callback.removes
        called == [run EXCEPT
                     !.callbackIdsCalled = Append(@, item.callbackId),
                     !.trace = Append(@, CallbackEvent(item, state))]
    IN IF h \in 1..Len(run.handles)
       THEN [called EXCEPT
               !.changePaths = HandleRemove(@, run.handles[h].paths,
                                            run.handles[h].callbackId),
               !.handles[h].removed = TRUE,
               !.trace = Append(@, RemoveEvent(h))]
       ELSE called

\* callbacks.forEach of _runOnChanges over the array taken from the entry when the
\* entry was visited; run is [callbackIdsCalled, trace, changePaths, handles].
RECURSIVE RunCallbacksReentrant(_, _, _)
RunCallbacksReentrant(callbacks, run, state) ==
    IF callbacks = <<>> THEN run
    ELSE LET item == Head(callbacks)
         IN RunCallbacksReentrant(Tail(callbacks),
                IF NotYetCalled(run.callbackIdsCalled, item.callbackId)
                THEN CallCallback(item, run, state)
                ELSE run,
                state)

\* this._changePaths.forEach of _runOnChanges, from entry i on, with callbacks that
\* may call remove(): entry i is read when the walk reaches it.
RECURSIVE RunFromReentrant(_, _, _)
RunFromReentrant(i, run, state) ==
    IF i > Len(run.changePaths)
    THEN run
    ELSE LET value == run.changePaths[i]
             newValue == PointerGet(value.path, state)
         IN IF HasChanged(value.previousValue, newValue)
            THEN RunFromReentrant(i + 1,
                     RunCallbacksReentrant(value.callbacks,
                         [run EXCEPT
                            !.changePaths[i].previousValue = newValue,
                            !.trace = Append(@, ChangedEvent(value.path))],
                         state),
                     state)
            ELSE RunFromReentrant(i + 1, run, state)

\* Store.invalidate, with callbacks that may call remove(): the table and the
\* handles afterwards and what the call did, in order.
StoreInvalidateReentrant(changePaths, hs, state) ==
    LET run == RunFromReentrant(1, [callbackIdsCalled |-> <<>>, trace |-> <<>>,
                                    changePaths |-> changePaths, handles |-> hs],
                                state)
    IN [changePaths |-> run.changePaths,
        handles |-> run.handles,
        trace |-> Append(run.trace, EmitEvent("invalidate"))]

\* A faulty StoreInvalidate: the event is emitted only when an address changed.
StoreInvalidateIfChanged(changePaths, state) ==
    LET run == RunOnChanges(changePaths, state)
    IN [changePaths |-> run.changePaths,
        trace |-> IF run.trace = <<>> THEN <<>>
                  ELSE Append(run.trace, EmitEvent("invalidate"))]

\* Store.invalidate: the subscription table afterwards and what the call did, in order.
StoreInvalidate(changePaths, state) ==
    LET run == RunOnChanges(changePaths, state)
    IN [changePaths |-> run.changePaths,
        trace |-> Append(run.trace, EmitEvent("invalidate"))]

\* A faulty StoreApply: invalidates whatever the flag.
StoreApplyAlways(operations, invalidate, state, changePaths, used) ==
    LET patchResult == PatchApply(operations, state, used)
        inv == StoreInvalidate(changePaths, patchResult.object)
    IN [state |-> patchResult.object,
        changePaths |-> inv.changePaths,
        trace |-> inv.trace,
        undoOperations |-> patchResult.undoOperations]

\* A faulty StoreApply: invalidate() is called before the patched root is stored.
StoreApplyInvalidateFirst(operations, invalidate, state, changePaths, used) ==
    LET patchResult == PatchApply(operations, state, used)
        inv == StoreInvalidate(changePaths, state)
    IN [state |-> patchResult.object,
        changePaths |-> IF invalidate THEN inv.changePaths ELSE changePaths,
        trace |-> IF invalidate THEN inv.trace ELSE <<>>,
        undoOperations |-> patchResult.undoOperations]

\* Store.apply: the root, the subscription table, what the call did and its result.
StoreApply(operations, invalidate, state, changePaths, used) ==
    LET patchResult == PatchApply(operations, state, used)
        inv == StoreInvalidate(changePaths, patchResult.object)
    IN [state |-> patchResult.object,
        changePaths |-> IF invalidate THEN inv.changePaths ELSE changePaths,
        trace |-> IF invalidate THEN inv.trace ELSE <<>>,
        undoOperations |-> patchResult.undoOperations]

\* The identities of the objects that stay referenced from outside the root when
\* apply replaces it: the baselines and the held Path.  A container apply copies is
\* garbage afterwards unless one of these refers to it.
LiveIds ==
    {RootId}
    \cup UNION {IdsOf(_changePaths[i].previousValue) : i \in 1..Len(_changePaths)}
    \cup (IF heldPath = NoPath THEN {} ELSE IdsOf(heldPath.value))

-----------------------------------------------------------------------------
(* Inputs *)

\* The operations callers apply: writes of a scalar under /a/b, removals anywhere.
Operations ==
    {AddOp(<<"a", "b">>, Num(n)) : n \in Scalars}
    \cup {ReplaceOp(<<"a", "b">>, Num(n)) : n \in Scalars}
    \cup {RemoveOp(a) : a \in Addresses}

\* The values a Path passed to at captured: no value (the address was absent), an
\* array of up to MaxLen elements, some of them undefined, and 0.
Elements == {Undefined} \cup {Num(n) : n \in Scalars}

ArrayValues ==
    {Undefined, Num(0)}
    \cup {Arr(id, e) : id \in {1}, e \in UNION {[1..m -> Elements] : m \in 0..MaxLen}}

\* The Paths passed to at: an address, the root it was taken from, the value captured.
ArrayPaths ==
    {[path |-> a, state |-> RootId, value |-> v] : a \in Addresses, v \in ArrayValues}

\* The indexes passed to at: from one below the first to one past the longest array.
Indexes == (0 - 1)..MaxLen

\* The batches callers apply: the empty batch and every single operation.
Batches == {<<>>} \cup {<<operation>> : operation \in Operations}

\* The batches a caller applies and then undoes: up to MaxOps operations, among them
\* writes of a scalar over /a.
OperationsUndo == Operations \cup {AddOp(<<"a">>, Num(n)) : n \in Scalars}

BatchesUndo == UNION {[1..m -> OperationsUndo] : m \in 0..MaxOps}

\* The ways the caller names an address to Store.path: a string pointer, or the
\* held Path and one more segment.
PathArgs ==
    {[base |-> <<>>, segments |-> a] : a \in Addresses}
    \cup (IF heldPath = NoPath THEN {}
          ELSE {[base |-> heldPath.path, segments |-> <<k>>] :
                  k \in {y \in Segments : Append(heldPath.path, y) \in Addresses}})

\* The Path objects the caller can pass: one built on the spot, or the held one.
PathObjects ==
    {StorePath(arg.base, arg.segments, _state) : arg \in PathArgs}
    \cup (IF heldPath = NoPath THEN {} ELSE {heldPath})

\* The paths arguments of onChange: up to MaxPathsArg Paths of distinct addresses.
PathsArgs ==
    UNION {{paths \in [1..m -> PathObjects] :
              \A i, j \in 1..m : i # j => paths[i].path # paths[j].path} :
           m \in {n \in 1..MaxPathsArg : n <= Cardinality(Addresses)}}

-----------------------------------------------------------------------------
(* The store as a state machine *)

StoreInit ==
    /\ _state = Obj(RootId, NoFields)
    /\ _changePaths = <<>>
    /\ _callbackId = 0
    /\ handles = <<>>
    /\ heldPath = NoPath
    /\ lastCall = "new"
    /\ trace = <<>>

\* heldPath = store.path(...)
Path(arg) ==
    /\ heldPath' = StorePath(arg.base, arg.segments, _state)
    /\ lastCall' = "path"
    /\ trace' = <<>>
    /\ UNCHANGED <<_state, _changePaths, _callbackId, handles, outsideStore>>

\* No store.at call made.
NoAt == [none |-> TRUE]

\* store.at(path, index)
At(path, index) ==
    /\ atCall' = [path |-> path, index |-> index, result |-> StoreAt(path, index)]
    /\ UNCHANGED <<storeVars, workerVars, kept, queueVars>>

\* store.apply(operations, invalidate)
Apply(operations, invalidate) ==
    \E result \in {StoreApply(operations, invalidate, _state, _changePaths, LiveIds)} :
       /\ _state' = result.state
       /\ _changePaths' = result.changePaths
       /\ trace' = result.trace
       /\ lastCall' = IF invalidate THEN "applyInvalidate" ELSE "apply"
       /\ UNCHANGED <<_callbackId, handles, heldPath, outsideStore>>

\* A faulty OnChange: the subscriber id is not incremented.
OnChangeSameId(paths, callback) ==
    /\ _callbackId < MaxSubs
    /\ Len(handles) < MaxSubs
    /\ _changePaths' = AddAll(_changePaths, paths, callback, _callbackId)
    /\ handles' = Append(handles, [paths |-> [j \in 1..Len(paths) |-> paths[j].path],
                                   callbackId |-> _callbackId,
                                   removed |-> FALSE])
    /\ lastCall' = "onChange"
    /\ trace' = <<>>
    /\ UNCHANGED <<_state, _callbackId, heldPath, outsideStore>>

\* handle = store.onChange(paths, callback)
OnChange(paths, callback) ==
    /\ _callbackId < MaxSubs
    /\ _changePaths' = AddAll(_changePaths, paths, callback, _callbackId)
    /\ handles' = Append(handles, [paths |-> [j \in 1..Len(paths) |-> paths[j].path],
                                   callbackId |-> _callbackId,
                                   removed |-> FALSE])
    /\ _callbackId' = _callbackId + 1
    /\ lastCall' = "onChange"
    /\ trace' = <<>>
    /\ UNCHANGED <<_state, heldPath, outsideStore>>

\* handle.remove()
Remove(h) ==
    /\ _changePaths' = HandleRemove(_changePaths, handles[h].paths, handles[h].callbackId)
    /\ handles' = [handles EXCEPT ![h].removed = TRUE]
    /\ lastCall' = IF handles[h].removed THEN "removeAgain" ELSE "remove"
    /\ trace' = <<>>
    /\ UNCHANGED <<_state, _callbackId, heldPath, outsideStore>>

\* store.invalidate()
Invalidate ==
    \E inv \in {StoreInvalidate(_changePaths, _state)} :
       /\ _changePaths' = inv.changePaths
       /\ trace' = inv.trace
       /\ lastCall' = "invalidate"
       /\ UNCHANGED <<_state, _callbackId, handles, heldPath, outsideStore>>

\* store.invalidate(), the callbacks being ones that may call remove()
InvalidateReentrant ==
    \E inv \in {StoreInvalidateReentrant(_changePaths, handles, _state)} :
       /\ _changePaths' = inv.changePaths
       /\ handles' = inv.handles
       /\ trace' = inv.trace
       /\ lastCall' = "invalidate"
       /\ UNCHANGED <<_state, _callbackId, heldPath, outsideStore>>

\* No undo list kept.
NoUndo == [none |-> TRUE]

\* undo = store.apply(operations), without invalidate: the caller keeps the list
\* apply returns.
ApplyKeep(operations) ==
    LET result == StoreApply(operations, FALSE, _state, _changePaths, LiveIds)
    IN /\ _state' = result.state
       /\ kept' = [before |-> _state, undoOperations |-> result.undoOperations]
       /\ trace' = <<>>
       /\ lastCall' = "apply"
       /\ UNCHANGED <<_changePaths, _callbackId, handles, heldPath, workerVars, queueVars, atCall>>

\* store.apply(undo), without invalidate, right after the apply that returned undo.
ApplyUndo ==
    LET result == StoreApply(kept.undoOperations, FALSE, _state, _changePaths, LiveIds)
    IN /\ lastCall = "apply"
       /\ kept # NoUndo
       /\ _state' = result.state
       /\ trace' = <<>>
       /\ lastCall' = "applyUndo"
       /\ UNCHANGED <<_changePaths, _callbackId, handles, heldPath, kept, workerVars, queueVars, atCall>>

-----------------------------------------------------------------------------
(* WorkerStore (src/unnamed/part_000) *)

Pending == [state |-> "pending"]
Resolved(value) == [state |-> "resolved", value |-> value]
NoMessage == [none |-> TRUE]

\* No method of the class adds to WorkerStore._changePaths (its _addOnChange is
\* commented out): the Map stays as constructed.
WorkerChangePaths == <<>>

\* A faulty GetResult: the resolver is stored before the id is incremented.
GetResultStaleKey(messageId, messageQueue, c) ==
    [messageId |-> messageId + 1,
     messageQueue |-> [k \in DOMAIN messageQueue \cup {messageId} |->
                         IF k = messageId THEN c ELSE messageQueue[k]]]

\* WorkerStore._getResult for call c: the next id, the resolver stored under it.
GetResult(messageId, messageQueue, c) ==
    LET id == messageId + 1
    IN [messageId |-> id,
        messageQueue |-> [k \in DOMAIN messageQueue \cup {id} |->
                            IF k = id THEN c ELSE messageQueue[k]]]

\* A faulty Envelope: the id is read before _getResult() has incremented it.
EnvelopeStaleId(messageId, type) == [id |-> messageId - 1, type |-> type]

\* The envelope of a request: the id is this._messageId as read at postMessage.
Envelope(messageId, type) == [id |-> messageId, type |-> type]

\* A faulty DeleteEntry: the whole table is dropped.
DeleteEntryAll(messageQueue, id) == [k \in {} |-> 0]

\* A faulty DeleteEntry: the entry stays.
DeleteEntryKeep(messageQueue, id) == messageQueue

\* delete this._messageQueue[id]
DeleteEntry(messageQueue, id) == [k \in DOMAIN messageQueue \ {id} |-> messageQueue[k]]

\* The requests WorkerStore._runOnChanges sends: one _getState() per tracked address.
RunOnChangesRequests(changePaths) == Len(changePaths)

WorkerInit ==
    /\ _messageId = 0
    /\ _messageQueue = [k \in {} |-> 0]
    /\ calls = <<>>
    /\ outbox = <<>>
    /\ microtasks = <<>>
    /\ lastMessage = NoMessage
    /\ events = <<>>

\* Nothing queued; the script is running.
QueueInit ==
    /\ scheduled = <<>>
    /\ parts = <<>>
    /\ running = TRUE

Init == StoreInit /\ WorkerInit /\ kept = NoUndo /\ QueueInit /\ atCall = NoAt

\* A request: _getResult(), then postMessage, then the caller waits.
Request(type, invalidate) ==
    LET c == Len(calls) + 1
        result == GetResult(_messageId, _messageQueue, c)
    IN /\ Len(calls) < MaxCalls
       /\ _messageId' = result.messageId
       /\ _messageQueue' = result.messageQueue
       /\ outbox' = Append(outbox, Envelope(result.messageId, type))
       /\ calls' = Append(calls, [type |-> type, invalidate |-> invalidate,
                                  id |-> Envelope(result.messageId, type).id, requests |-> 1,
                                  result |-> Pending, promise |-> Pending])
       /\ UNCHANGED <<microtasks, lastMessage, events, outsideWorker>>

\* workerStore.get(path)
WorkerGet == Request("get", FALSE)

\* workerStore.apply(operations, invalidate)
WorkerApply(invalidate) == Request("apply", invalidate)

\* A faulty OnMessage: the entry is deleted before it is looked up.
OnMessageDeleteFirst(id, result) ==
    /\ microtasks = <<>>
    /\ _messageQueue' = DeleteEntry(_messageQueue, id)
    /\ lastMessage' = [id |-> id, result |-> result, did |-> "warn", call |-> 0]
    /\ UNCHANGED <<calls, microtasks>>
    /\ UNCHANGED <<_messageId, outbox, events, outsideWorker>>

\* this._worker.onmessage, for a message { id, result }; a new task, so that every
\* continuation made ready before has run.
OnMessage(id, result) ==
    /\ microtasks = <<>>
    /\ IF id \in DOMAIN _messageQueue
       THEN LET c == _messageQueue[id]
            IN /\ calls' = [calls EXCEPT ![c].result = Resolved(result)]
               /\ _messageQueue' = DeleteEntry(_messageQueue, id)
               /\ microtasks' = Append(microtasks, [call |-> c, step |-> "resume"])
               /\ lastMessage' = [id |-> id, result |-> result, did |-> "resolve", call |-> c]
       ELSE /\ lastMessage' = [id |-> id, result |-> result, did |-> "warn", call |-> 0]
            /\ UNCHANGED <<calls, _messageQueue, microtasks>>
    /\ UNCHANGED <<_messageId, outbox, events, outsideWorker>>

\* A faulty Microtask: the then() callback of apply calls invalidate() without
\* awaiting it, so it returns at once.
MicrotaskNoAwait ==
    /\ microtasks # <<>>
    /\ LET c == Head(microtasks).call
           step == Head(microtasks).step
           rest == Tail(microtasks)
       IN CASE step = "resume" /\ calls[c].invalidate ->
                 /\ calls' = [calls EXCEPT ![c].promise = Resolved(calls[c].result.value)]
                 /\ microtasks' = Append(rest, [call |-> c, step |-> "emit"])
                 /\ UNCHANGED events
            [] step = "resume" /\ ~calls[c].invalidate ->
                 /\ calls' = [calls EXCEPT ![c].promise = Resolved(calls[c].result.value)]
                 /\ microtasks' = rest
                 /\ UNCHANGED events
            [] step = "emit" ->
                 /\ events' = Append(events, [type |-> "invalidate", call |-> c])
                 /\ microtasks' = rest
                 /\ UNCHANGED calls
    /\ UNCHANGED <<_messageId, _messageQueue, outbox, lastMessage, outsideWorker>>

\* The next continuation: the caller of get resumes after its await; the then()
\* callback of apply runs, calls invalidate() when asked to, and returns; invalidate()
\* resumes after its await and emits.
Microtask ==
    /\ microtasks # <<>>
    /\ LET c == Head(microtasks).call
           step == Head(microtasks).step
           rest == Tail(microtasks)
       IN CASE step = "resume" /\ calls[c].invalidate ->
                 /\ calls' = [calls EXCEPT
                                ![c].requests = @ + RunOnChangesRequests(WorkerChangePaths)]
                 /\ microtasks' = Append(rest, [call |-> c, step |-> "emit"])
                 /\ UNCHANGED events
            [] step = "resume" /\ ~calls[c].invalidate ->
                 /\ calls' = [calls EXCEPT ![c].promise = Resolved(calls[c].result.value)]
                 /\ microtasks' = rest
                 /\ UNCHANGED events
            [] step = "emit" ->
                 /\ events' = Append(events, [type |-> "invalidate", call |-> c])
                 /\ microtasks' = Append(rest, [call |-> c, step |-> "return"])
                 /\ UNCHANGED calls
            [] step = "return" ->
                 /\ calls' = [calls EXCEPT ![c].promise = Resolved(calls[c].result.value)]
                 /\ microtasks' = rest
                 /\ UNCHANGED events
    /\ UNCHANGED <<_messageId, _messageQueue, outbox, lastMessage, outsideWorker>>

-----------------------------------------------------------------------------
(* queueTask, queueMicroTask, queueAnimationTask (src/queue), as the tests of  *)
(* tests/shim/unit/queue.ts use them: a callback is queued by synchronous      *)
(* code and run later by the host's event loop; the handle returned destroys   *)
(* it.                                                                         *)

Kinds == {"task", "micro", "animation"}

\* Whether handle h is queued, not destroyed and not run yet.
Waiting(h) == ~scheduled[h].destroyed /\ ~scheduled[h].ran

\* The callbacks of a kind that wait to be run, in the order they were queued.
WaitingOf(kind) == {h \in 1..Len(scheduled) : scheduled[h].kind = kind /\ Waiting(h)}

\* A faulty NextOf: a destroyed callback still has its turn.
NextOfDestroyedToo(kind) ==
    LET left == {h \in 1..Len(scheduled) : scheduled[h].kind = kind /\ ~scheduled[h].ran}
    IN IF left = {} THEN 0 ELSE CHOOSE h \in left : \A g \in left : h <= g

\* The callback of a kind the event loop runs next: the one queued first, 0 for none.
NextOf(kind) ==
    IF WaitingOf(kind) = {} THEN 0
    ELSE CHOOSE h \in WaitingOf(kind) : \A g \in WaitingOf(kind) : h <= g

\* queueTask(callback), queueMicroTask(callback), queueAnimationTask(callback),
\* called by the synchronous code that is running.
Queue(kind) ==
    /\ running
    /\ Len(scheduled) < MaxQueued
    /\ scheduled' = Append(scheduled, [kind |-> kind, destroyed |-> FALSE, ran |-> FALSE])
    /\ UNCHANGED <<parts, running, storeVars, workerVars, kept, atCall>>

\* handle.destroy(), called by the synchronous code that is running; nothing is left
\* to destroy once the callback has run.
Destroy(h) ==
    /\ running
    /\ scheduled' = [scheduled EXCEPT ![h].destroyed = @ \/ ~scheduled[h].ran]
    /\ UNCHANGED <<parts, running, storeVars, workerVars, kept, atCall>>

\* The synchronous code returns to the event loop.
EndSync ==
    /\ running
    /\ running' = FALSE
    /\ UNCHANGED <<scheduled, parts, storeVars, workerVars, kept, atCall>>

\* The event loop starts other synchronous code (a timer, an event handler): a new
\* turn, so no microtask is waiting.
StartSync ==
    /\ ~running
    /\ WaitingOf("micro") = {}
    /\ running' = TRUE
    /\ UNCHANGED <<scheduled, parts, storeVars, workerVars, kept, atCall>>

\* The event loop runs callback h.
Run(h) ==
    /\ scheduled' = [scheduled EXCEPT ![h].ran = TRUE]
    /\ parts' = Append(parts, h)
    /\ UNCHANGED <<running, storeVars, workerVars, kept, atCall>>

\* At the end of the current turn the microtasks are run, in order.
RunMicroTask ==
    /\ ~running
    /\ NextOf("micro") # 0
    /\ Run(NextOf("micro"))

\* A faulty RunTask: the task does not wait for the microtasks.
RunTaskBeforeMicro ==
    /\ ~running
    /\ NextOf("task") # 0
    /\ Run(NextOf("task"))

\* A later turn of the event loop runs the next task.
RunTask ==
    /\ ~running
    /\ WaitingOf("micro") = {}
    /\ NextOf("task") # 0
    /\ Run(NextOf("task"))

\* A later animation frame runs the next animation task.
RunAnimationTask ==
    /\ ~running
    /\ WaitingOf("micro") = {}
    /\ NextOf("animation") # 0
    /\ Run(NextOf("animation"))

-----------------------------------------------------------------------------
(* Specifications *)

\* Callers that build every Path on the spot and keep none, and call remove() of a
\* handle once.
Next ==
    \/ \E operations \in Batches, invalidate \in BOOLEAN : Apply(operations, invalidate)
    \/ /\ _callbackId < MaxSubs
       /\ \E paths \in PathsArgs, callback \in CallbackFns : OnChange(paths, callback)
    \/ \E h \in 1..Len(handles) : ~handles[h].removed /\ Remove(h)
    \/ Invalidate

Spec == Init /\ [][Next]_vars

\* Callers that invalidate with every apply and call remove() of a handle any number
\* of times.
NextRemove ==
    \/ \E operations \in Batches : Apply(operations, TRUE)
    \/ /\ _callbackId < MaxSubs
       /\ \E paths \in PathsArgs, callback \in CallbackFns : OnChange(paths, callback)
    \/ \E h \in 1..Len(handles) : Remove(h)

SpecRemove == Init /\ [][NextRemove]_vars

\* Callers that also keep a Path across later calls (and never unsubscribe).
NextHeld ==
    \/ \E arg \in PathArgs : Path(arg)
    \/ \E operations \in Batches, invalidate \in BOOLEAN : Apply(operations, invalidate)
    \/ /\ _callbackId < MaxSubsHeld
       /\ \E paths \in PathsArgs, callback \in CallbackFns : OnChange(paths, callback)
    \/ Invalidate

SpecHeld == Init /\ [][NextHeld]_vars

\* Callers as in Next, with fewer registrations: every apply is compared with every
\* batch it could have been given.
NextFrame ==
    \/ \E operations \in Batches, invalidate \in BOOLEAN : Apply(operations, invalidate)
    \/ /\ _callbackId < MaxSubsFrame
       /\ \E paths \in PathsArgs, callback \in CallbackFns : OnChange(paths, callback)
    \/ \E h \in 1..Len(handles) : Remove(h)
    \/ Invalidate

SpecFrame == Init /\ [][NextFrame]_vars

\* A caller that applies batches and undoes some of them.
NextUndo ==
    \/ \E operations \in BatchesUndo : ApplyKeep(operations)
    \/ ApplyUndo

SpecUndo == Init /\ [][NextUndo]_vars

\* Callers whose callbacks may call remove() of a handle: a callback is given the
\* handle it removes by its position among the onChange calls, and does nothing
\* while that call has not been made.
RemoverFns == {Remover(h) : h \in 0..MaxSubsReentrant}

NextReentrant ==
    \/ \E operations \in Batches : Apply(operations, FALSE)
    \/ /\ _callbackId < MaxSubsReentrant
       /\ \E paths \in PathsArgs, callback \in RemoverFns : OnChange(paths, callback)
    \/ InvalidateReentrant

SpecReentrant == Init /\ [][NextReentrant]_vars

\* A caller that derives Paths of array elements.
NextAt == \E path \in ArrayPaths, index \in Indexes : At(path, index)

SpecAt == Init /\ [][NextAt]_vars

\* Synchronous code that queues and destroys callbacks, and the event loop.
QueueNext ==
    \/ \E kind \in Kinds : Queue(kind)
    \/ \E h \in 1..Len(scheduled) : Destroy(h)
    \/ EndSync
    \/ StartSync
    \/ RunMicroTask
    \/ RunTask
    \/ RunAnimationTask

QueueSpec == Init /\ [][QueueNext]_vars

\* A WorkerStore, its callers, and a worker that answers with any id and any result.
MessageIds == 0..(MaxCalls + 1)

WorkerNext ==
    \/ WorkerGet
    \/ \E invalidate \in BOOLEAN : WorkerApply(invalidate)
    \/ \E id \in MessageIds, result \in Results : OnMessage(id, result)
    \/ Microtask

WorkerSpec == Init /\ [][WorkerNext]_vars

\* The same WorkerStore on an event loop that runs every continuation made ready, and
\* a channel that delivers a response to every request that waits for one.
Deliver(id) == id \in DOMAIN _messageQueue /\ \E result \in Results : OnMessage(id, result)

WorkerNextFair ==
    \/ /\ Len(calls) < MaxCallsFair
       /\ WorkerGet \/ \E invalidate \in BOOLEAN : WorkerApply(invalidate)
    \/ \E id \in MessageIds, result \in Results : OnMessage(id, result)
    \/ Microtask

WorkerSpecFair ==
    /\ Init /\ [][WorkerNextFair]_vars
    /\ WF_vars(Microtask)
    /\ \A id \in 1..MaxCallsFair : WF_vars(Deliver(id))

-----------------------------------------------------------------------------
(* What the claims speak of *)

\* The last call was an invalidate, direct or through apply(operations, true).
Invalidated == lastCall \in {"invalidate", "applyInvalidate"}

\* How often the last call ran the callback registered under callbackId.
TimesCalled(tr, callbackId) ==
    Cardinality({j \in 1..Len(tr) : tr[j].type = "callback" /\ tr[j].callbackId = callbackId})

\* Whether the last call found the address changed.
FoundChanged(tr, path) == \E j \in 1..Len(tr) : tr[j] = ChangedEvent(path)

\* The addresses of a handle the last call found changed.
ChangedOf(h) == {j \in 1..Len(handles[h].paths) : FoundChanged(trace, handles[h].paths[j])}

\* The callback ids registered on entry i of a subscription table.
IdsOn(changePaths, i) ==
    {changePaths[i].callbacks[j].callbackId : j \in 1..Len(changePaths[i].callbacks)}

\* Every baseline is identical to the value now at its address.
BaselinesCurrent ==
    \A i \in 1..Len(_changePaths) :
       StrictEqual(_changePaths[i].previousValue, PointerGet(_changePaths[i].path, _state))

-----------------------------------------------------------------------------
(* C1 *)

\* C1: within one invalidate, no subscriber id has its callback run more than once,
\* and a registration over several addresses of which two or more were found changed
\* has its callback run exactly once.
C1_SingleFire ==
    Invalidated =>
       \A h \in 1..Len(handles) :
          /\ TimesCalled(trace, handles[h].callbackId) <= 1
          /\ (~handles[h].removed /\ Cardinality(ChangedOf(h)) >= 2)
                => TimesCalled(trace, handles[h].callbackId) = 1

\* An invalidate found two addresses of one registration changed and ran its callback.
C1_Witness ==
    /\ Invalidated
    /\ \E h \in 1..Len(handles) :
          /\ ~handles[h].removed
          /\ Cardinality(ChangedOf(h)) >= 2
          /\ TimesCalled(trace, handles[h].callbackId) = 1

-----------------------------------------------------------------------------
(* C2 *)

\* C2: once remove() of a handle has been called, no invalidate (direct or through
\* apply(operations, true)) runs that registration's callback, whatever was called
\* in between and even when its addresses are found changed.
C2_RemovedNeverCalled ==
    \A h \in 1..Len(handles) :
       handles[h].removed => TimesCalled(trace, handles[h].callbackId) = 0

\* An invalidate after remove() found an address of the removed registration changed.
C2_Witness ==
    /\ Invalidated
    /\ \E h \in 1..Len(handles) :
          /\ handles[h].removed
          /\ ChangedOf(h) # {}
          /\ TimesCalled(trace, handles[h].callbackId) = 0

-----------------------------------------------------------------------------
(* C3 *)

\* What an invalidate step must do to entry i of the table it starts from.
C3_EntryStep(i) ==
    LET value == _changePaths[i]
        current == PointerGet(value.path, _state')
        differs == ~StrictEqual(value.previousValue, current)
    IN /\ FoundChanged(trace', value.path) <=> differs
       /\ differs =>
            /\ _changePaths'[i].path = value.path
            /\ _changePaths'[i].callbacks = value.callbacks
            /\ StrictEqual(_changePaths'[i].previousValue, current)
            /\ \A id \in IdsOn(_changePaths, i) : TimesCalled(trace', id) = 1
       /\ ~differs => _changePaths'[i] = value

\* C3: an invalidate takes a tracked address as changed exactly when the value at the
\* address in the current root is not identical to the baseline; then it sets the
\* baseline to that value and every callback on the address has run once in the pass;
\* callbacks on unchanged addresses only are not run.  Afterwards every baseline is
\* identical to the current value, and an invalidate that follows at once runs no
\* callback.
C3_ChangeDetection ==
    [][ /\ lastCall' \in {"invalidate", "applyInvalidate"} =>
            /\ Len(_changePaths') = Len(_changePaths)
            /\ \A i \in 1..Len(_changePaths) : C3_EntryStep(i)
            /\ \A j \in 1..Len(trace') :
                  trace'[j].type = "callback" =>
                     \E i \in 1..Len(_changePaths) :
                        /\ trace'[j].callbackId \in IdsOn(_changePaths, i)
                        /\ ~StrictEqual(_changePaths[i].previousValue,
                                        PointerGet(_changePaths[i].path, _state'))
            /\ BaselinesCurrent'
        /\ (Invalidated /\ lastCall' = "invalidate") =>
            \A j \in 1..Len(trace') : trace'[j].type # "callback"
      ]_vars

\* An invalidate found /a changed by identity alone (/a/b, tracked too, holds the
\* value it held) and ran a callback.
C3_Witness ==
    /\ Invalidated
    /\ FoundChanged(trace, <<"a">>)
    /\ ~FoundChanged(trace, <<"a", "b">>)
    /\ EntryIndex(_changePaths, <<"a", "b">>) # 0
    /\ PointerGet(<<"a", "b">>, _state) # Undefined
    /\ \E j \in 1..Len(trace) : trace[j].type = "callback"

-----------------------------------------------------------------------------
(* C4 *)

\* C4: apply(operations, invalidate) always makes the patched root the stored root;
\* with invalidate false it runs no callback, emits no event and leaves the
\* subscription table (every baseline) as it was; with invalidate true it runs the
\* change detection and emits.
C4_ApplyFrame ==
    [][ lastCall' \in {"apply", "applyInvalidate"} =>
          LET invalidate == lastCall' = "applyInvalidate"
          IN /\ ~invalidate => (trace' = <<>> /\ _changePaths' = _changePaths)
             /\ invalidate => (trace' # <<>> /\ BaselinesCurrent')
             /\ \A operations \in Batches :
                   Apply(operations, invalidate) =>
                      _state' = PatchApply(operations, _state, LiveIds).object
      ]_vars

\* After an apply without invalidate a subscribed address holds a value that is not
\* its baseline: the change is there and nobody was told.
C4_Witness ==
    /\ lastCall = "apply"
    /\ trace = <<>>
    /\ \E i \in 1..Len(_changePaths) :
          /\ _changePaths[i].callbacks # <<>>
          /\ ~StrictEqual(_changePaths[i].previousValue,
                          PointerGet(_changePaths[i].path, _state))

-----------------------------------------------------------------------------
(* C5 *)

\* C5: every invalidate emits exactly one 'invalidate' event, changed address or not,
\* and emits it after every callback of the pass.
C5_OneEventLast ==
    Invalidated =>
       /\ Len(trace) >= 1
       /\ trace[Len(trace)] = EmitEvent("invalidate")
       /\ Cardinality({j \in 1..Len(trace) : trace[j].type = "emit"}) = 1

\* An invalidate that found nothing changed although callbacks are registered.
C5_Witness ==
    /\ Invalidated
    /\ trace = <<EmitEvent("invalidate")>>
    /\ \E i \in 1..Len(_changePaths) : _changePaths[i].callbacks # <<>>

-----------------------------------------------------------------------------
(* C6 *)

-----------------------------------------------------------------------------
(* C7 *)

\* C7: get(p) is the value p captured when path() built it: right after path() it is
\* the value at the address in the root of that moment, and no later call other than
\* a new path() changes what get(p) returns, so after an apply only a Path built
\* again yields the new value.
C7_PathIsSnapshot ==
    [][ /\ lastCall' = "path" =>
             StoreGet(heldPath)' = PointerGet(heldPath'.path, _state')
        /\ (heldPath # NoPath /\ lastCall' # "path") =>
             /\ heldPath' # NoPath
             /\ StoreGet(heldPath)' = StoreGet(heldPath)
      ]_vars

\* After an apply the held Path still yields the old value, which is not the value
\* now at its address.
C7_Witness ==
    /\ lastCall \in {"apply", "applyInvalidate"}
    /\ heldPath # NoPath
    /\ StoreGet(heldPath) # Undefined
    /\ ~StrictEqual(StoreGet(heldPath), PointerGet(heldPath.path, _state))

-----------------------------------------------------------------------------
(* C8 *)

\* C8: an inbound message with id i resolves the waiter of the request sent with id
\* i, if it is pending, with the result the message carries, and changes no other
\* call, whatever requests are pending and in whatever order the responses arrive.
C8_MatchedById ==
    [][ \A id \in MessageIds, result \in Results :
          OnMessage(id, result) =>
             /\ Len(calls') = Len(calls)
             /\ \A c \in 1..Len(calls) :
                   IF calls[c].id = id /\ calls[c].result = Pending
                   THEN calls'[c] = [calls[c] EXCEPT !.result = Resolved(result)]
                   ELSE calls'[c] = calls[c]
      ]_vars

\* The response to a later request arrived first: its waiter is resolved with that
\* result, the waiter of the earlier request is still pending.
C8_Witness ==
    \E c1, c2 \in 1..Len(calls) :
       /\ c1 < c2
       /\ calls[c1].result = Pending
       /\ lastMessage # NoMessage
       /\ lastMessage.id = calls[c2].id
       /\ calls[c2].result = Resolved(lastMessage.result)

-----------------------------------------------------------------------------
(* C9 *)

\* The ids of the pending-request table.
PendingIds == DOMAIN _messageQueue

\* C9: an inbound message whose id is in the pending table removes that entry and
\* resolves its waiter; one whose id is not in the table resolves no waiter, leaves
\* the table as it is and the handler ends normally (it warns); an id leaves the
\* table by such a message only, and an id that has left never comes back.
C9_RemovedOnceByMessage ==
    [][ /\ \A id \in MessageIds, result \in Results :
             OnMessage(id, result) =>
                IF id \in PendingIds
                THEN /\ PendingIds' = PendingIds \ {id}
                     /\ calls'[_messageQueue[id]].result = Resolved(result)
                     /\ lastMessage'.did = "resolve"
                ELSE /\ _messageQueue' = _messageQueue
                     /\ calls' = calls
                     /\ lastMessage'.did = "warn"
        /\ \A k \in PendingIds \ PendingIds' :
             \E result \in Results : OnMessage(k, result)
        /\ \A k \in PendingIds' \ PendingIds : k > _messageId
      ]_vars

\* A second message with the id of an answered request arrived while another
\* request was pending: the handler warned.
C9_Witness ==
    /\ lastMessage # NoMessage
    /\ lastMessage.did = "warn"
    /\ \E c \in 1..Len(calls) : calls[c].id = lastMessage.id /\ calls[c].result # Pending
    /\ PendingIds # {}

-----------------------------------------------------------------------------
(* C10 *)

\* C10: the promise of apply(operations, true) resolves only after a second request,
\* sent for the invalidate once the apply response has arrived, has been answered.
C10_SecondRoundTrip ==
    \A c \in 1..Len(calls) :
       (calls[c].type = "apply" /\ calls[c].invalidate /\ calls[c].promise # Pending)
          => calls[c].requests >= 2

-----------------------------------------------------------------------------
(* C11 *)

\* C11: every request is sent with an id greater than the id of every request sent
\* before (the first with 1), so no two requests share an id, and the id in the
\* envelope is the key under which the resolver of that very request was registered.
C11_FreshIdSameKey ==
    [][ Len(outbox') > Len(outbox) =>
          LET sent == outbox'[Len(outbox')]
          IN /\ Len(outbox') = Len(outbox) + 1
             /\ outbox = <<>> => sent.id = 1
             /\ \A j \in 1..Len(outbox) : outbox[j].id < sent.id
             /\ PendingIds' \ PendingIds = {sent.id}
             /\ _messageQueue'[sent.id] = Len(calls')
             /\ calls'[Len(calls')].id = sent.id
      ]_vars

\* A request was sent after an earlier one had been answered: its id is a new one,
\* not the id the answer freed.
C11_Witness ==
    /\ Len(calls) >= 2
    /\ calls[1].result # Pending
    /\ calls[Len(calls)].result = Pending
    /\ outbox[Len(outbox)].id \in PendingIds
    /\ outbox[Len(outbox)].id > outbox[1].id
    /\ lastMessage # NoMessage
    /\ lastMessage.id = outbox[1].id

-----------------------------------------------------------------------------
(* C16 *)

\* The ids of the requests sent and not answered yet.
Outstanding == {calls[c].id : c \in {d \in 1..Len(calls) : calls[d].result = Pending}}

\* C16: in every state the keys of the pending table are exactly the ids of the
\* requests sent and not answered yet, each key holding the resolver of its own
\* request; so the table is empty once every request has been answered.
C16_TableIsOutstanding ==
    /\ PendingIds = Outstanding
    /\ \A id \in PendingIds : calls[_messageQueue[id]].id = id
    /\ (\A c \in 1..Len(calls) : calls[c].result # Pending) => PendingIds = {}

\* Of three requests the second was answered and the others were not: the table
\* holds the first and the third.
C16_Witness ==
    /\ Len(calls) = 3
    /\ calls[2].result # Pending
    /\ PendingIds = {calls[1].id, calls[3].id}
    /\ calls[1].id # calls[3].id

-----------------------------------------------------------------------------
(* C18 *)

\* How many 'invalidate' events call c has emitted.
EventsOf(evs, c) == Cardinality({j \in 1..Len(evs) : evs[j].call = c})

\* C18: an 'invalidate' event is emitted only by an apply called with invalidate
\* true, after its response has arrived, while its promise is still pending, and only
\* once; when the promise of a call resolves it resolves with the result of its
\* response, and by then an apply with invalidate true has emitted exactly one event,
\* any other call none.
C18_EmitBetweenResponseAndResolve ==
    [][ /\ events' # events =>
             \E c \in 1..Len(calls) :
                /\ events' = Append(events, [type |-> "invalidate", call |-> c])
                /\ calls[c].type = "apply"
                /\ calls[c].invalidate
                /\ calls[c].result # Pending
                /\ calls[c].promise = Pending
                /\ EventsOf(events, c) = 0
        /\ \A c \in 1..Len(calls') :
             /\ ~calls'[c].invalidate => EventsOf(events', c) = 0
             /\ calls'[c].promise # Pending =>
                   /\ calls'[c].promise = calls'[c].result
                   /\ calls'[c].invalidate => EventsOf(events', c) = 1
      ]_vars

\* An apply with invalidate true has resolved after its one event, an apply without
\* has resolved with none, and a third request is still waiting for its response.
C18_Witness ==
    \E c1, c2, c3 \in 1..Len(calls) :
       /\ calls[c1].type = "apply" /\ calls[c1].invalidate
       /\ calls[c1].promise # Pending /\ EventsOf(events, c1) = 1
       /\ calls[c2].type = "apply" /\ ~calls[c2].invalidate
       /\ calls[c2].promise # Pending /\ EventsOf(events, c2) = 0
       /\ calls[c3].result = Pending

-----------------------------------------------------------------------------
(* C17 *)

\* C17: when every request that waits is eventually sent a response with its id, the
\* promise of every get and every apply (with or without invalidate) eventually
\* resolves, however requests, responses and stray messages interleave.
C17_EveryPromiseResolves ==
    \A c \in 1..MaxCallsFair :
       (Len(calls) >= c) ~> (Len(calls) >= c /\ calls[c].promise # Pending)

\* Every call the bound allows was made, one of them an apply with invalidate true
\* and one a get, and the promise of each has resolved.
C17_Witness ==
    /\ Len(calls) = MaxCallsFair
    /\ \A c \in 1..Len(calls) : calls[c].promise # Pending
    /\ \E c \in 1..Len(calls) : calls[c].type = "apply" /\ calls[c].invalidate
    /\ \E c \in 1..Len(calls) : calls[c].type = "get"

-----------------------------------------------------------------------------
(* C12 *)

\* C12: remove() called on a handle whose remove() was called before, whatever was
\* called in between, leaves the subscription table (the callbacks and the baseline
\* of every address) as it is.
C12_RemoveIdempotent ==
    [][ /\ lastCall' = "removeAgain" => _changePaths' = _changePaths
        /\ \A h \in 1..Len(handles) :
             (handles[h].removed /\ Remove(h)) => _changePaths' = _changePaths
      ]_vars

\* remove() was called again on a handle while an address of that handle still has
\* the callback of another registration.
C12_Witness ==
    /\ lastCall = "removeAgain"
    /\ \E h \in 1..Len(handles), i \in 1..Len(_changePaths) :
          /\ handles[h].removed
          /\ \E j \in 1..Len(handles[h].paths) : handles[h].paths[j] = _changePaths[i].path
          /\ _changePaths[i].callbacks # <<>>

-----------------------------------------------------------------------------
(* C19 *)

\* The handles that registered on the address and were not removed.
RegisteredOn(path) ==
    {h \in 1..Len(handles) :
        /\ ~handles[h].removed
        /\ \E j \in 1..Len(handles[h].paths) : handles[h].paths[j] = path}

\* C19: no two onChange calls have the same subscriber id, and every address of a
\* call is registered under the id of the call; so in an invalidate every
\* registration on an address found changed is run exactly once, be it one of
\* several registrations on the address or one registration over several changed
\* addresses.
C19_FreshIdPerCall ==
    /\ \A h1, h2 \in 1..Len(handles) :
          h1 # h2 => handles[h1].callbackId # handles[h2].callbackId
    /\ \A h \in 1..Len(handles) : handles[h].callbackId < _callbackId
    /\ \A i \in 1..Len(_changePaths) :
          IdsOn(_changePaths, i) = {handles[h].callbackId : h \in RegisteredOn(_changePaths[i].path)}
    /\ Invalidated =>
          \A h \in 1..Len(handles) :
             (~handles[h].removed /\ ChangedOf(h) # {})
                => TimesCalled(trace, handles[h].callbackId) = 1

\* An invalidate found changed an address on which two calls had registered the
\* same callback function, and ran it once for each.
C19_Witness ==
    /\ Invalidated
    /\ \E h1, h2 \in 1..Len(handles) :
          /\ h1 # h2
          /\ \E path \in Addresses :
                /\ {h1, h2} \subseteq RegisteredOn(path)
                /\ FoundChanged(trace, path)
          /\ TimesCalled(trace, handles[h1].callbackId) = 1
          /\ TimesCalled(trace, handles[h2].callbackId) = 1
          /\ Cardinality({j \in 1..Len(trace) : trace[j].type = "callback"}) = 2

-----------------------------------------------------------------------------
(* C20 *)

\* C20: in apply(operations, true) every callback runs while the store already
\* holds the patched root (a store.path() called from the callback resolves against
\* it), and the callbacks and then the 'invalidate' event have happened when apply
\* returns.
C20_CallbacksSeePatchedRoot ==
    [][ lastCall' = "applyInvalidate" =>
          /\ trace' # <<>>
          /\ trace'[Len(trace')] = EmitEvent("invalidate")
          /\ \A j \in 1..Len(trace') : trace'[j].type = "callback" => trace'[j].saw = _state'
          /\ \A operations \in Batches :
                Apply(operations, TRUE) =>
                   \A j \in 1..Len(trace') :
                      trace'[j].type = "callback" =>
                         trace'[j].saw = PatchApply(operations, _state, LiveIds).object
      ]_vars

\* An apply with invalidate true changed the root and ran a callback, which saw the
\* new root, where its address holds a value it did not hold before.
C20_Witness ==
    /\ lastCall = "applyInvalidate"
    /\ \E j \in 1..Len(trace), i \in 1..Len(_changePaths) :
          /\ trace[j].type = "callback"
          /\ trace[j].saw = _state
          /\ trace[j].callbackId \in IdsOn(_changePaths, i)
          /\ FoundChanged(trace, _changePaths[i].path)
          /\ PointerGet(_changePaths[i].path, trace[j].saw) # Undefined

-----------------------------------------------------------------------------
(* C13 *)

\* C13: after apply(B) and then apply of the undo list it returned, the root is
\* deeply equal to the root before B.
C13_UndoRestores ==
    lastCall = "applyUndo" => DeepEqual(_state, kept.before)

-----------------------------------------------------------------------------
(* C14 *)

-----------------------------------------------------------------------------
(* C15 *)

-----------------------------------------------------------------------------
(* C21 *)

\* C21: at(arrayPath, index) returns a Path whose path is arrayPath.path with the index
\* as one more segment and whose state is arrayPath.state; its value is element index
\* of arrayPath.value when arrayPath.value is an array that has the element, and
\* Undefined when arrayPath.value is absent or the index names no element.
C21_AtChildPath ==
    atCall # NoAt =>
        LET path == atCall.path
            index == atCall.index
            result == atCall.result
        IN /\ result.path = path.path \o <<ToString(index)>>
           /\ result.state = path.state
           /\ (path.value.t = "arr" /\ index \in 0..(Len(path.value.e) - 1)) =>
                 result.value = path.value.e[index + 1]
           /\ (path.value = Undefined
                 \/ (path.value.t = "arr" /\ index \notin 0..(Len(path.value.e) - 1))) =>
                 result.value = Undefined

\* at returned the last element of a two-element array, not the first.
C21_Witness ==
    /\ atCall # NoAt
    /\ atCall.path.value.t = "arr"
    /\ Len(atCall.path.value.e) = 2
    /\ atCall.index = 1
    /\ atCall.path.value.e[1] # atCall.path.value.e[2]
    /\ atCall.result.value = atCall.path.value.e[2]

-----------------------------------------------------------------------------
(* C22 *)

\* What the remove() of handle h must leave of entry i of the table it starts from:
\* the address, the baseline, and every callback but those of the handle's id.
C22_EntryKept(h, i) ==
    LET value == _changePaths[i]
        Other(c) == c.callbackId # handles[h].callbackId
    IN /\ _changePaths'[i].path = value.path
       /\ _changePaths'[i].previousValue = value.previousValue
       /\ _changePaths'[i].callbacks = SelectSeq(value.callbacks, Other)
       /\ (\A j \in 1..Len(handles[h].paths) : handles[h].paths[j] # value.path)
             => _changePaths'[i] = value

\* C22: remove() of a handle takes the callbacks of that handle's subscriber id off
\* that handle's addresses and nothing else: every other callback (on the same
\* addresses too), every baseline and the root stay as they are; an invalidate that
\* later finds an address of a registration not removed changed runs its callback.
C22_RemoveFrame ==
    [][ /\ lastCall' = "remove" =>
            \E h \in 1..Len(handles) :
               /\ ~handles[h].removed
               /\ handles' = [handles EXCEPT ![h].removed = TRUE]
               /\ _state' = _state
               /\ _callbackId' = _callbackId
               /\ Len(_changePaths') = Len(_changePaths)
               /\ \A i \in 1..Len(_changePaths) : C22_EntryKept(h, i)
        /\ lastCall' \in {"invalidate", "applyInvalidate"} =>
            \A h \in 1..Len(handles) :
               (/\ ~handles[h].removed
                /\ \E j \in 1..Len(handles[h].paths) :
                      FoundChanged(trace', handles[h].paths[j]))
                  => TimesCalled(trace', handles[h].callbackId) = 1
      ]_vars

\* After remove() of one of two registrations on the same address, an invalidate
\* found the address changed and ran the callback of the other.
C22_Witness ==
    /\ Invalidated
    /\ \E h, g \in 1..Len(handles) :
          /\ handles[h].removed
          /\ ~handles[g].removed
          /\ \E j \in 1..Len(handles[h].paths), k \in 1..Len(handles[g].paths) :
                /\ handles[h].paths[j] = handles[g].paths[k]
                /\ FoundChanged(trace, handles[h].paths[j])
          /\ TimesCalled(trace, handles[g].callbackId) = 1
          /\ TimesCalled(trace, handles[h].callbackId) = 0

-----------------------------------------------------------------------------
(* C23 *)

\* Whether the last call ran the callback of handle h after step j of its trace.
CalledAfter(h, j) ==
    \E k \in (j + 1)..Len(trace) :
       /\ trace[k].type = "callback"
       /\ trace[k].callbackId = handles[h].callbackId

\* Whether a callback of the last call called remove() of handle h.
RemovedInPass(h) == \E j \in 1..Len(trace) : trace[j] = RemoveEvent(h)

\* C23: when a callback run by an invalidate calls remove() of another registration's
\* handle, the callback of that registration is not run later in that invalidate,
\* on whatever address the two are registered, nor by a later invalidate.
C23_RemovedInPassNotCalled ==
    Invalidated =>
       \A h \in 1..Len(handles) :
          /\ \A j \in 1..Len(trace) : trace[j] = RemoveEvent(h) => ~CalledAfter(h, j)
          /\ (handles[h].removed /\ ~RemovedInPass(h)) => ~CalledAfter(h, 0)

====
